---- MODULE Spec2Model ----
(***************************************************************************)
(* Access control and book invitations of the recipe management app.      *)
(*                                                                         *)
(* The shared state is the database (User, BookMember, BookInvitation,    *)
(* Recipe tables).  Every API handler is a sequence of store calls; each  *)
(* store call is one atomic step, so concurrent requests interleave       *)
(* between their reads and writes.  Every store call may return an error. *)
(* Time is counted in days; a response is observed in the variable resp   *)
(* for one state.                                                          *)
(***************************************************************************)
EXTENDS Integers, FiniteSets, TLC

(* ------------------------------ bounds -------------------------------- *)

\* number of invitation ids that may be generated
MaxInv == 2
\* last value of the clock
MaxTime == 8
\* number of requests in flight
NumProcs == 2

(* --------------------------- program constants ------------------------ *)

\* 7 * 24 * 60 * 60 * 1000 ms, in days
InviteTtl == 7

(* ------------------------------ inputs -------------------------------- *)

UserIds == {"u1", "u2", "u3"}
Anon == "anon"
Emails == {"e1", "e2", "e3"}
\* the addresses invitations are sent to
InviteEmails == {"e3"}
Books == {"b1", "b2"}
Perms == {"READ", "WRITE"}
Actions == {"accept", "decline", "revoke"}
Procs == 1..NumProcs

\* the e-mail address of each account (User.email is UNIQUE)
EmailOf(u) == CASE u = "u1" -> "e1" [] u = "u2" -> "e2" [] u = "u3" -> "e3" [] OTHER -> "none"

NoInv == [id |-> 0]
NoBook == "nobook"

VARIABLES users, members, invitations, recipes, now, nextInvId, procs, resp

vars == <<users, members, invitations, recipes, now, nextInvId, procs, resp>>

(* ------------------------------- store -------------------------------- *)

\* BookInvitation row with this id, NoInv when there is none
InvById(id) == IF \E i \in invitations : i.id = id
               THEN CHOOSE i \in invitations : i.id = id
               ELSE NoInv

\* BookMember rows of one (bookId, userId)
MemberRows(b, u) == {m \in members : m.bookId = b /\ m.userId = u}

\* nanoid(): an id no BookMember row has (rows are never deleted)
FreshMemberId == Cardinality(members) + 1

\* a BookMember table with no uniqueness rule
MemberInsertUnchecked(row) == TRUE

\* storage rule of BookMember: (bookId, userId) is unique
MemberInsertAllowed(row) == MemberRows(row.bookId, row.userId) = {}

\* PENDING invitations of one (bookId, invitedUserEmail)
PendingFor(b, e) == {i \in invitations : i.bookId = b /\ i.invitedUserEmail = e /\ i.status = "PENDING"}

\* a BookInvitation table with no uniqueness rule
InvitationInsertUnchecked(row) == TRUE

\* storage rule of BookInvitation: (bookId, invitedUserEmail) is unique among PENDING rows
InvitationInsertAllowed(row) == row.status = "PENDING" => PendingFor(row.bookId, row.invitedUserEmail) = {}

Registered == {u.id : u \in users}

\* a worker with no request in hand
IdleProc == [pc |-> "idle", op |-> "none", actor |-> Anon, act |-> "none", inv |-> 0, snap |-> NoInv,
             email |-> "none", perm |-> "none", book |-> NoBook]

\* no response was sent by the last step
NoResp == [inv |-> 0, res |-> 0, msg |-> "none", act |-> "none"]

\* NextResponse.json(...): request req of worker p ends with this status and body
\* (inv: the invitation the request named or created; act: the action it asked for)
RespondTo(p, req, code, text) ==
    /\ procs' = [procs EXCEPT ![p] = IdleProc]
    /\ resp' = [inv |-> req.inv, res |-> code, msg |-> text, act |-> req.act]

\* the same for a request already in flight
Respond(p, code, text) == RespondTo(p, procs[p], code, text)

\* the request of worker p goes on to its next store call
Goto(p, rec) ==
    /\ procs' = [procs EXCEPT ![p] = rec]
    /\ resp' = NoResp

(* ------------------------------- Init --------------------------------- *)

\* two accounts: u1 is the WRITE member of book b1, u2 a READ member of book b2; one recipe per book
Init ==
    /\ users = {[id |-> "u1", email |-> "e1", createdAt |-> 0], [id |-> "u2", email |-> "e2", createdAt |-> 0]}
    /\ members = {[id |-> 1, bookId |-> "b1", userId |-> "u1", permission |-> "WRITE"],
                  [id |-> 2, bookId |-> "b2", userId |-> "u2", permission |-> "READ"]}
    /\ invitations = {}
    /\ recipes = {[id |-> "r1", bookId |-> "b1", createdBy |-> "u1"],
                  [id |-> "r2", bookId |-> "b2", createdBy |-> "none"]}
    /\ now = 0
    /\ nextInvId = 1
    /\ procs = [p \in Procs |-> IdleProc]
    /\ resp = NoResp

(* -------------------------- access evaluator -------------------------- *)

\* the lookup keyed on the user alone
checkBookAccessAnyBook(bookId, userId, fault) ==
    IF fault \/ {m \in members : m.userId = userId} = {}
    THEN [hasAccess |-> FALSE, permission |-> "none"]
    ELSE [hasAccess |-> TRUE, permission |-> (CHOOSE m \in members : m.userId = userId).permission]

\* .single() of BookMember by (bookId, userId): a row only when exactly one matches
checkBookAccess(bookId, userId, fault) ==
    IF fault \/ Cardinality(MemberRows(bookId, userId)) # 1
    THEN [hasAccess |-> FALSE, permission |-> "none"]
    ELSE [hasAccess |-> TRUE, permission |-> (CHOOSE m \in MemberRows(bookId, userId) : TRUE).permission]

RecipeById(recipeId) == {r \in recipes : r.id = recipeId}

requireRecipeAccess(recipeId, userId, permission, recipeFault, memberFault) ==
    IF recipeFault \/ RecipeById(recipeId) = {}
    THEN [success |-> FALSE, error |-> "Recipe not found", status |-> 404]
    ELSE LET recipe == CHOOSE r \in RecipeById(recipeId) : TRUE
             bookAccess == checkBookAccess(recipe.bookId, userId, memberFault)
         IN  IF ~bookAccess.hasAccess
             THEN [success |-> FALSE, error |-> "You don't have access to this recipe", status |-> 403]
             ELSE IF permission = "WRITE" /\ bookAccess.permission = "READ"
             THEN [success |-> FALSE, error |-> "You don't have write access to this recipe", status |-> 403]
             ELSE [success |-> TRUE, error |-> "none", status |-> 200]

(* ------------------------------ accounts ------------------------------ *)

\* POST /api/auth/signup: a new account unless the e-mail is taken
Signup(u) ==
    /\ ~(\E x \in users : x.email = EmailOf(u))
    /\ users' = users \cup {[id |-> u, email |-> EmailOf(u), createdAt |-> now]}
    /\ resp' = NoResp
    /\ UNCHANGED <<members, invitations, recipes, now, nextInvId, procs>>

\* the clock advances by days: requests last milliseconds, so none is in flight
Tick(d) ==
    /\ \A p \in Procs : procs[p].pc = "idle"
    /\ now + d <= MaxTime
    /\ now' = now + d
    /\ resp' = NoResp
    /\ UNCHANGED <<users, members, invitations, recipes, nextInvId, procs>>

(* ---------------------- PATCH /api/invitations/[id] ------------------- *)

Pass == [res |-> 0, msg |-> "none"]

\* the identity check done on the linked account id instead of the e-mail address
PatchIdentityById(invitation, action, user) ==
    IF action = "revoke"
    THEN IF invitation.invitedById # user
         THEN [res |-> 403, msg |-> "Unauthorized"] ELSE Pass
    ELSE IF invitation.invitedUserId # user
         THEN [res |-> 403, msg |-> "Unauthorized"] ELSE Pass

\* the identity check with no test of who revokes
PatchIdentityAnyRevoker(invitation, action, user) ==
    IF action = "revoke"
    THEN Pass
    ELSE IF invitation.invitedUserEmail # EmailOf(user)
         THEN [res |-> 403, msg |-> "Unauthorized"] ELSE Pass

\* the identity check of the action
PatchIdentity(invitation, action, user) ==
    IF action = "revoke"
    THEN IF invitation.invitedById # user
         THEN [res |-> 403, msg |-> "Unauthorized"] ELSE Pass
    ELSE IF invitation.invitedUserEmail # EmailOf(user)
         THEN [res |-> 403, msg |-> "Unauthorized"] ELSE Pass

\* the comparison with the boundary instant counted as expired
IsExpiredInclusive(expiresAt, t) == expiresAt <= t

\* new Date(invitation.expiresAt) < new Date()
IsExpired(expiresAt, t) == expiresAt < t

\* the validity check without its expiry test
PatchValidityNoExpiry(invitation, t) ==
    IF invitation.status # "PENDING"
    THEN [res |-> 400, msg |-> "Invitation is no longer pending"]
    ELSE Pass

\* "Check if invitation is still valid"
PatchValidity(invitation, t) ==
    IF invitation.status # "PENDING"
    THEN [res |-> 400, msg |-> "Invitation is no longer pending"]
    ELSE IF IsExpired(invitation.expiresAt, t)
    THEN [res |-> 400, msg |-> "Invitation has expired"]
    ELSE Pass

\* the checks with the validity check done before the identity check
PatchCheckStateFirst(invitation, action, user, t) ==
    IF PatchValidity(invitation, t) # Pass
    THEN PatchValidity(invitation, t)
    ELSE PatchIdentity(invitation, action, user)

\* the checks between the read and the write, in the handler's order
PatchCheck(invitation, action, user, t) ==
    IF PatchIdentity(invitation, action, user) # Pass
    THEN PatchIdentity(invitation, action, user)
    ELSE PatchValidity(invitation, t)

\* the written row with revoke making the invitation PENDING again
PatchedRowReopens(row, action, user) ==
    CASE action = "accept"  -> [row EXCEPT !.status = "ACCEPTED", !.invitedUserId = user]
      [] action = "decline" -> [row EXCEPT !.status = "DECLINED"]
      [] action = "revoke"  -> [row EXCEPT !.status = "PENDING"]

\* the written row with decline linking the account as accept does
PatchedRowDeclineLinks(row, action, user) ==
    CASE action = "accept"  -> [row EXCEPT !.status = "ACCEPTED", !.invitedUserId = user]
      [] action = "decline" -> [row EXCEPT !.status = "DECLINED", !.invitedUserId = user]
      [] action = "revoke"  -> [row EXCEPT !.status = "REVOKED"]

\* the row written by each action
PatchedRow(row, action, user) ==
    CASE action = "accept"  -> [row EXCEPT !.status = "ACCEPTED", !.invitedUserId = user]
      [] action = "decline" -> [row EXCEPT !.status = "DECLINED"]
      [] action = "revoke"  -> [row EXCEPT !.status = "REVOKED"]

\* .update(...).eq('id', id): the rows the update writes
UpdateMatches(row, id) == row.id = id

\* the inserted row with WRITE whatever the invitation offers
MembershipRowWrite(invitation, user) ==
    [id |-> FreshMemberId, bookId |-> invitation.bookId, userId |-> user, permission |-> "WRITE"]

\* the BookMember row inserted by accept
MembershipRow(invitation, user) ==
    [id |-> FreshMemberId, bookId |-> invitation.bookId, userId |-> user, permission |-> invitation.permission]

PatchFailText(action) ==
    CASE action = "accept"  -> "Failed to accept invitation"
      [] action = "decline" -> "Failed to decline invitation"
      [] action = "revoke"  -> "Failed to revoke invitation"

\* the read removing an invitation it finds expired
PatchReadSweeping(p, u, id, a, fault) ==
    /\ procs[p].pc = "idle"
    /\ u \in Registered /\ a \in Actions
    /\ LET req == [IdleProc EXCEPT !.op = "PATCH", !.actor = u, !.act = a, !.inv = id]
           invitation == InvById(id)
           chk == PatchCheck(invitation, a, u, now)
       IN IF fault \/ invitation = NoInv
          THEN RespondTo(p, req, 404, "Invitation not found") /\ UNCHANGED invitations
          ELSE IF chk # Pass
          THEN /\ RespondTo(p, req, chk.res, chk.msg)
               /\ invitations' = IF chk.msg = "Invitation has expired"
                                 THEN invitations \ {invitation} ELSE invitations
          ELSE Goto(p, [req EXCEPT !.pc = "update", !.snap = invitation]) /\ UNCHANGED invitations
    /\ UNCHANGED <<users, members, recipes, now, nextInvId>>

\* a signed-in user and a valid body; the select of the invitation, then the checks
PatchRead(p, u, id, a, fault) ==
    /\ procs[p].pc = "idle"
    /\ u \in Registered /\ a \in Actions
    /\ LET req == [IdleProc EXCEPT !.op = "PATCH", !.actor = u, !.act = a, !.inv = id]
           invitation == InvById(id)
           chk == PatchCheck(invitation, a, u, now)
       IN IF fault \/ invitation = NoInv THEN RespondTo(p, req, 404, "Invitation not found")
          ELSE IF chk # Pass THEN RespondTo(p, req, chk.res, chk.msg)
          ELSE Goto(p, [req EXCEPT !.pc = "update", !.snap = invitation])
    /\ UNCHANGED <<users, members, invitations, recipes, now, nextInvId>>

\* the update of the invitation row
PatchUpdate(p, fault) ==
    /\ procs[p].pc = "update"
    /\ LET me == procs[p]
           hit == {i \in invitations : UpdateMatches(i, me.inv)}
       IN IF fault \/ hit = {}
          THEN /\ Respond(p, 500, PatchFailText(me.act))
               /\ UNCHANGED invitations
          ELSE /\ invitations' = (invitations \ hit) \cup {PatchedRow(i, me.act, me.actor) : i \in hit}
               /\ IF me.act = "accept"
                  THEN Goto(p, [me EXCEPT !.pc = "member"])
                  ELSE Respond(p, 200, PatchedRow(me.snap, me.act, me.actor).status)
    /\ UNCHANGED <<users, members, recipes, now, nextInvId>>

\* accept: the insert of the BookMember row
PatchMember(p, fault) ==
    /\ procs[p].pc = "member"
    /\ LET me == procs[p]
           row == MembershipRow(me.snap, me.actor)
       IN IF fault \/ ~MemberInsertAllowed(row)
          THEN /\ Respond(p, 500, "Failed to create book access")
               /\ UNCHANGED members
          ELSE /\ members' = members \cup {row}
               /\ Respond(p, 200, "ACCEPTED")
    /\ UNCHANGED <<users, invitations, recipes, now, nextInvId>>

(* --------------------- DELETE /api/invitations/[id] ------------------- *)

\* the permission check letting only the sender delete
DeleteAllowedSenderOnly(invitation, user) ==
    ~(invitation.invitedById # user)

\* "only the sender or receiver can delete"
DeleteAllowed(invitation, user) ==
    ~(invitation.invitedById # user /\ invitation.invitedUserEmail # EmailOf(user))

\* a signed-in user; the select of the invitation, then the permission check
DeleteRead(p, u, id, fault) ==
    /\ procs[p].pc = "idle"
    /\ u \in Registered
    /\ LET req == [IdleProc EXCEPT !.op = "DELETE", !.actor = u, !.inv = id]
           invitation == InvById(id)
       IN IF fault \/ invitation = NoInv THEN RespondTo(p, req, 404, "Invitation not found")
          ELSE IF ~DeleteAllowed(invitation, u) THEN RespondTo(p, req, 403, "Unauthorized")
          ELSE Goto(p, [req EXCEPT !.pc = "delete"])
    /\ UNCHANGED <<users, members, invitations, recipes, now, nextInvId>>

DeleteWrite(p, fault) ==
    /\ procs[p].pc = "delete"
    /\ IF fault
       THEN /\ Respond(p, 500, "Failed to delete invitation")
            /\ UNCHANGED invitations
       ELSE /\ invitations' = {i \in invitations : i.id # procs[p].inv}
            /\ Respond(p, 200, "Invitation deleted successfully")
    /\ UNCHANGED <<users, members, recipes, now, nextInvId>>

(* ------------------------ POST /api/invitations ----------------------- *)

\* the books of the user's BookMember rows of any permission
WriteBooksAnyPermission(user) == {m.bookId : m \in {x \in members : x.userId = user}}

\* books of the BookMember rows with userId = user and permission = 'WRITE'
WriteBooks(user) == {m.bookId : m \in {x \in members : x.userId = user /\ x.permission = "WRITE"}}

\* the duplicate check without its status filter
DuplicateRowsAnyStatus(book, email) ==
    {i \in invitations : i.bookId = book /\ i.invitedUserEmail = email}

\* the rows the duplicate check selects
DuplicateRows(book, email) ==
    {i \in invitations : i.bookId = book /\ i.invitedUserEmail = email /\ i.status = "PENDING"}

\* .single(): data only when exactly one row matches and the store answers
ExistingInvitation(book, email, fault) == ~fault /\ Cardinality(DuplicateRows(book, email)) = 1

\* the inserted row; status and invitedUserId are the column defaults
NewInvitation(id, book, user, email, perm, t) ==
    [id |-> id, bookId |-> book, invitedById |-> user, invitedUserEmail |-> email, permission |-> perm,
     status |-> "PENDING", createdAt |-> t, expiresAt |-> t + InviteTtl, invitedUserId |-> "none"]

\* the create requests in flight
Creating == {q \in Procs : procs[q].op = "POST"}

\* a signed-in user and a valid body; the select of the inviter's book
CreateBooks(p, u, e, perm, fault) ==
    /\ procs[p].pc = "idle"
    /\ u \in Registered /\ e \in Emails /\ perm \in Perms
    /\ nextInvId + Cardinality(Creating) <= MaxInv
    /\ now + InviteTtl <= MaxTime
    /\ LET req == [IdleProc EXCEPT !.op = "POST", !.actor = u, !.email = e, !.perm = perm]
       IN IF fault \/ WriteBooks(u) = {}
          THEN RespondTo(p, req, 403, "You don't have a recipe book to invite users to")
          ELSE \E b \in WriteBooks(u) : Goto(p, [req EXCEPT !.pc = "check", !.book = b])
    /\ UNCHANGED <<users, members, invitations, recipes, now, nextInvId>>

\* "Check if invitation already exists"
CreateCheck(p, fault) ==
    /\ procs[p].pc = "check"
    /\ IF ExistingInvitation(procs[p].book, procs[p].email, fault)
       THEN Respond(p, 400, "Invitation already sent to this user")
       ELSE Goto(p, [procs[p] EXCEPT !.pc = "insert"])
    /\ UNCHANGED <<users, members, invitations, recipes, now, nextInvId>>

\* "Create invitation"
CreateInsert(p, fault) ==
    /\ procs[p].pc = "insert"
    /\ LET me == procs[p]
           row == NewInvitation(nextInvId, me.book, me.actor, me.email, me.perm, now)
       IN IF fault \/ ~InvitationInsertAllowed(row)
          THEN /\ Respond(p, 500, "Failed to create invitation")
               /\ UNCHANGED <<invitations, nextInvId>>
          ELSE /\ invitations' = invitations \cup {row}
               /\ nextInvId' = nextInvId + 1
               /\ RespondTo(p, [me EXCEPT !.inv = row.id], 201, "PENDING")
    /\ UNCHANGED <<users, members, recipes, now>>

(* ---------------------------- specification --------------------------- *)

\* a new request is taken by the first free worker
Free(p) == procs[p].pc = "idle" /\ \A q \in Procs : q < p => procs[q].pc # "idle"

\* the response of the last step reaches its client
Deliver ==
    /\ resp # NoResp
    /\ resp' = NoResp
    /\ UNCHANGED <<users, members, invitations, recipes, now, nextInvId, procs>>

\* every response is delivered before the next step is taken
Quiet == resp = NoResp

Next ==
    \/ \E u \in UserIds : Quiet /\ Signup(u)
    \/ \E d \in {InviteTtl, InviteTtl + 1} : Quiet /\ Tick(d)
    \/ \E p \in Procs, u \in UserIds, id \in 1..MaxInv, a \in Actions, fault \in BOOLEAN :
          Quiet /\ Free(p) /\ PatchRead(p, u, id, a, fault)
    \/ \E p \in Procs, fault \in BOOLEAN : Quiet /\ PatchUpdate(p, fault)
    \/ \E p \in Procs, fault \in BOOLEAN : Quiet /\ PatchMember(p, fault)
    \/ \E p \in Procs, u \in UserIds, id \in 1..MaxInv, fault \in BOOLEAN :
          Quiet /\ Free(p) /\ DeleteRead(p, u, id, fault)
    \/ \E p \in Procs, fault \in BOOLEAN : Quiet /\ DeleteWrite(p, fault)
    \/ \E p \in Procs, u \in UserIds, e \in InviteEmails, perm \in Perms, fault \in BOOLEAN :
          Quiet /\ Free(p) /\ CreateBooks(p, u, e, perm, fault)
    \/ \E p \in Procs, fault \in BOOLEAN : Quiet /\ CreateCheck(p, fault)
    \/ \E p \in Procs, fault \in BOOLEAN : Quiet /\ CreateInsert(p, fault)
    \/ Deliver

Spec == Init /\ [][Next]_vars

(* ------------------------- recipes: requests -------------------------- *)

RecipeIds == {"r1", "r2", "r9"}
\* the title a PUT body carries
Titles == {"t1"}

\* a recipe request of user u on recipe r, at its entry
RecipeReq(op, u, r) ==
    [pc |-> "idle", op |-> op, actor |-> u, act |-> op, inv |-> 0, snap |-> NoInv,
     email |-> "none", perm |-> "none", book |-> NoBook, recipe |-> r, title |-> "none"]

\* NextResponse.json(...) of a recipe request
RecipeRespond(p, req, code, text) ==
    /\ procs' = [procs EXCEPT ![p] = IdleProc]
    /\ resp' = [inv |-> 0, res |-> code, msg |-> text, act |-> req.op, actor |-> req.actor,
                recipe |-> req.recipe]

\* .from('BookMember').select('permission').eq(bookId).eq(userId).single() in the handlers
MembershipOf(bookId, userId, fault) ==
    IF fault \/ Cardinality(MemberRows(bookId, userId)) # 1
    THEN [found |-> FALSE, permission |-> "none"]
    ELSE [found |-> TRUE, permission |-> (CHOOSE m \in MemberRows(bookId, userId) : TRUE).permission]

\* the select of the recipe by id that opens GET, PUT and DELETE
RecipeRead(p, op, next, u, r, fault) ==
    /\ procs[p].pc = "idle"
    /\ u \in Registered
    /\ IF fault \/ RecipeById(r) = {}
       THEN RecipeRespond(p, RecipeReq(op, u, r), 404, "Recipe not found")
       ELSE Goto(p, [RecipeReq(op, u, r) EXCEPT !.pc = next,
                                               !.book = (CHOOSE x \in RecipeById(r) : TRUE).bookId])
    /\ UNCHANGED <<users, members, invitations, recipes, now, nextInvId>>

(* ------------------------ GET /api/recipes/[id] ----------------------- *)

GetRead(p, u, r, fault) == RecipeRead(p, "GET", "getmember", u, r, fault)

\* "Check if user has access to the recipe's book"
GetMember(p, fault) ==
    /\ procs[p].pc = "getmember"
    /\ IF ~MembershipOf(procs[p].book, procs[p].actor, fault).found
       THEN RecipeRespond(p, procs[p], 404, "Recipe not found")
       ELSE RecipeRespond(p, procs[p], 200, "recipe")
    /\ UNCHANGED <<users, members, invitations, recipes, now, nextInvId>>

(* ------------------------ PUT /api/recipes/[id] ----------------------- *)

PutRead(p, u, r, fault) == RecipeRead(p, "PUT", "putmember", u, r, fault)

\* the check passing when the lookup returns an error
WriteMemberFailOpen(bookId, userId, fault) ==
    LET membership == MembershipOf(bookId, userId, FALSE)
    IN fault \/ (membership.found /\ membership.permission = "WRITE")

\* "Check if user has write access to the recipe's book"
WriteMember(bookId, userId, fault) ==
    LET membership == MembershipOf(bookId, userId, fault)
    IN membership.found /\ membership.permission = "WRITE"

\* the membership check of PUT, then a valid body
PutMember(p, t, fault) ==
    /\ procs[p].pc = "putmember"
    /\ t \in Titles
    /\ IF ~WriteMember(procs[p].book, procs[p].actor, fault)
       THEN RecipeRespond(p, procs[p], 403, "You don't have permission to edit this recipe")
       ELSE Goto(p, [procs[p] EXCEPT !.pc = "putupdate", !.title = t])
    /\ UNCHANGED <<users, members, invitations, recipes, now, nextInvId>>

\* .update({title, ...}).eq('id', id).select().single(); the tags and the final fetch change no recipe
RecipeUpdate(p, fault) ==
    LET me == procs[p]
        hit == RecipeById(me.recipe)
    IN IF fault \/ hit = {}
       THEN /\ RecipeRespond(p, me, 500, "Failed to update recipe")
            /\ UNCHANGED recipes
       ELSE /\ recipes' = (recipes \ hit) \cup {[x EXCEPT !.title = me.title] : x \in hit}
            /\ RecipeRespond(p, me, 200, "recipe")

PutUpdate(p, fault) ==
    /\ procs[p].pc = "putupdate"
    /\ RecipeUpdate(p, fault)
    /\ UNCHANGED <<users, members, invitations, now, nextInvId>>

(* ----------------------- DELETE /api/recipes/[id] --------------------- *)

DelRead(p, u, r, fault) == RecipeRead(p, "DELETE", "delmember", u, r, fault)

DelMember(p, fault) ==
    /\ procs[p].pc = "delmember"
    /\ IF ~WriteMember(procs[p].book, procs[p].actor, fault)
       THEN RecipeRespond(p, procs[p], 403, "You don't have permission to delete this recipe")
       ELSE Goto(p, [procs[p] EXCEPT !.pc = "delwrite"])
    /\ UNCHANGED <<users, members, invitations, recipes, now, nextInvId>>

\* .delete().eq('id', id)
RecipeDelete(p, fault) ==
    IF fault
    THEN /\ RecipeRespond(p, procs[p], 500, "Failed to delete recipe")
         /\ UNCHANGED recipes
    ELSE /\ recipes' = {x \in recipes : x.id # procs[p].recipe}
         /\ RecipeRespond(p, procs[p], 200, "Recipe deleted successfully")

DelWrite(p, fault) ==
    /\ procs[p].pc = "delwrite"
    /\ RecipeDelete(p, fault)
    /\ UNCHANGED <<users, members, invitations, now, nextInvId>>

(* ------------- /api/recipes/[id], handlers keyed on Recipe.userId ------ *)

\* .from('Recipe').eq('id', id).eq('userId', session.user.id).single(): data only
OwnRecipe(r, u, fault) ==
    ~fault /\ Cardinality({x \in RecipeById(r) : x.userId = u}) = 1

OwnerGet(p, u, r, fault) ==
    /\ procs[p].pc = "idle"
    /\ u \in Registered
    /\ IF ~OwnRecipe(r, u, fault)
       THEN RecipeRespond(p, RecipeReq("GET-own", u, r), 404, "Recipe not found")
       ELSE RecipeRespond(p, RecipeReq("GET-own", u, r), 200, "recipe")
    /\ UNCHANGED <<users, members, invitations, recipes, now, nextInvId>>

\* a valid body, then "Check if recipe exists and belongs to user"
OwnerPutRead(p, u, r, t, fault) ==
    /\ procs[p].pc = "idle"
    /\ u \in Registered /\ t \in Titles
    /\ IF ~OwnRecipe(r, u, fault)
       THEN RecipeRespond(p, RecipeReq("PUT-own", u, r), 404, "Recipe not found")
       ELSE Goto(p, [RecipeReq("PUT-own", u, r) EXCEPT !.pc = "ownupdate", !.title = t])
    /\ UNCHANGED <<users, members, invitations, recipes, now, nextInvId>>

OwnerPutUpdate(p, fault) ==
    /\ procs[p].pc = "ownupdate"
    /\ RecipeUpdate(p, fault)
    /\ UNCHANGED <<users, members, invitations, now, nextInvId>>

OwnerDelRead(p, u, r, fault) ==
    /\ procs[p].pc = "idle"
    /\ u \in Registered
    /\ IF ~OwnRecipe(r, u, fault)
       THEN RecipeRespond(p, RecipeReq("DELETE-own", u, r), 404, "Recipe not found")
       ELSE Goto(p, [RecipeReq("DELETE-own", u, r) EXCEPT !.pc = "owndelete"])
    /\ UNCHANGED <<users, members, invitations, recipes, now, nextInvId>>

OwnerDelWrite(p, fault) ==
    /\ procs[p].pc = "owndelete"
    /\ RecipeDelete(p, fault)
    /\ UNCHANGED <<users, members, invitations, now, nextInvId>>

(* ----------------------- access evaluator, applied -------------------- *)

\* the check without its permission level
requireBookAccessAnyLevel(bookId, userId, permission, fault) ==
    LET bookAccess == checkBookAccess(bookId, userId, fault)
    IN  IF ~bookAccess.hasAccess
        THEN [success |-> FALSE, error |-> "You don't have access to this recipe book", status |-> 403]
        ELSE [success |-> TRUE, error |-> "none", status |-> 200]

requireBookAccess(bookId, userId, permission, fault) ==
    LET bookAccess == checkBookAccess(bookId, userId, fault)
    IN  IF ~bookAccess.hasAccess
        THEN [success |-> FALSE, error |-> "You don't have access to this recipe book", status |-> 403]
        ELSE IF permission = "WRITE" /\ bookAccess.permission = "READ"
        THEN [success |-> FALSE, error |-> "You don't have write access to this recipe book", status |-> 403]
        ELSE [success |-> TRUE, error |-> "none", status |-> 200]

\* the result of an evaluator call, as its caller sees it; the result depends
\* on the tables only, so the calls are made between the requests
Result(fn, u, target, code, text) ==
    /\ \A p \in Procs : procs[p].pc = "idle"
    /\ resp' = [inv |-> 0, res |-> code, msg |-> text, act |-> fn, actor |-> u, recipe |-> target]
    /\ UNCHANGED <<users, members, invitations, recipes, now, nextInvId, procs>>

\* a call of checkBookAccess: res 200 for hasAccess, 403 otherwise, msg the permission
CallCheckBookAccess(u, b, fault) ==
    LET r == checkBookAccess(b, u, fault)
    IN Result("checkBookAccess", u, b, IF r.hasAccess THEN 200 ELSE 403, r.permission)

CallRequireBookAccess(u, b, perm, fault) ==
    LET r == requireBookAccess(b, u, perm, fault)
    IN Result("requireBookAccess", u, b, r.status, r.error)

CallRequireRecipeAccess(u, r, perm, recipeFault, memberFault) ==
    LET a == requireRecipeAccess(r, u, perm, recipeFault, memberFault)
    IN Result("requireRecipeAccess", u, r, a.status, a.error)

(* ----------------------- recipes: specification ----------------------- *)

\* the accounts all exist; u1 is the WRITE member of b1, u2 holds any or no
\* permission on either book, u3 holds none; recipe r1 of book b1 and recipe r2
\* of book b2 carry the userId of u2; r9 is no recipe
RecipeInit ==
    /\ users = {[id |-> u, email |-> EmailOf(u), createdAt |-> 0] : u \in UserIds}
    /\ \E q1, q2 \in Perms \cup {"none"} :
          members = {[id |-> 1, bookId |-> "b1", userId |-> "u1", permission |-> "WRITE"]}
                    \cup {m \in {[id |-> 2, bookId |-> "b1", userId |-> "u2", permission |-> q1],
                                 [id |-> 3, bookId |-> "b2", userId |-> "u2", permission |-> q2]} :
                             m.permission # "none"}
    /\ invitations = {}
    /\ recipes = {[id |-> "r1", bookId |-> "b1", userId |-> "u2", createdBy |-> "u2", title |-> "t0"],
                  [id |-> "r2", bookId |-> "b2", userId |-> "u2", createdBy |-> "u2", title |-> "t0"]}
    /\ now = 0
    /\ nextInvId = 1
    /\ procs = [p \in Procs |-> IdleProc]
    /\ resp = NoResp

RecipeNext ==
    \/ \E p \in Procs, u \in UserIds, r \in RecipeIds, fault \in BOOLEAN :
          Quiet /\ Free(p) /\ GetRead(p, u, r, fault)
    \/ \E p \in Procs, fault \in BOOLEAN : Quiet /\ GetMember(p, fault)
    \/ \E p \in Procs, u \in UserIds, r \in RecipeIds, fault \in BOOLEAN :
          Quiet /\ Free(p) /\ PutRead(p, u, r, fault)
    \/ \E p \in Procs, t \in Titles, fault \in BOOLEAN : Quiet /\ PutMember(p, t, fault)
    \/ \E p \in Procs, fault \in BOOLEAN : Quiet /\ PutUpdate(p, fault)
    \/ \E p \in Procs, u \in UserIds, r \in RecipeIds, fault \in BOOLEAN :
          Quiet /\ Free(p) /\ DelRead(p, u, r, fault)
    \/ \E p \in Procs, fault \in BOOLEAN : Quiet /\ DelMember(p, fault)
    \/ \E p \in Procs, fault \in BOOLEAN : Quiet /\ DelWrite(p, fault)
    \/ \E p \in Procs, u \in UserIds, r \in RecipeIds, fault \in BOOLEAN :
          Quiet /\ Free(p) /\ OwnerGet(p, u, r, fault)
    \/ \E p \in Procs, u \in UserIds, r \in RecipeIds, t \in Titles, fault \in BOOLEAN :
          Quiet /\ Free(p) /\ OwnerPutRead(p, u, r, t, fault)
    \/ \E p \in Procs, fault \in BOOLEAN : Quiet /\ OwnerPutUpdate(p, fault)
    \/ \E p \in Procs, u \in UserIds, r \in RecipeIds, fault \in BOOLEAN :
          Quiet /\ Free(p) /\ OwnerDelRead(p, u, r, fault)
    \/ \E p \in Procs, fault \in BOOLEAN : Quiet /\ OwnerDelWrite(p, fault)
    \/ \E u \in UserIds, b \in Books, fault \in BOOLEAN : Quiet /\ CallCheckBookAccess(u, b, fault)
    \/ \E u \in UserIds, b \in Books, perm \in Perms, fault \in BOOLEAN :
          Quiet /\ CallRequireBookAccess(u, b, perm, fault)
    \/ \E u \in UserIds, r \in RecipeIds, perm \in Perms, rf \in BOOLEAN, mf \in BOOLEAN :
          Quiet /\ CallRequireRecipeAccess(u, r, perm, rf, mf)
    \/ Deliver

RecipeSpec == RecipeInit /\ [][RecipeNext]_vars

(* ----------------------- listings and creation ------------------------ *)

\* number of Recipe rows that may be stored
MaxRecipes == 3

\* nanoid(): an id no Recipe row has (no recipe is deleted while recipes are created)
RecipeName(n) == CASE n = 1 -> "r1" [] n = 2 -> "r2" [] n = 3 -> "r3" [] n = 4 -> "r4" [] OTHER -> "r5"

\* a listing or creation request of user u, at its entry; rows: the rows its first select returned
ListReq(op, u) ==
    [pc |-> "idle", op |-> op, actor |-> u, act |-> op, inv |-> 0, snap |-> NoInv,
     email |-> "none", perm |-> "none", book |-> NoBook, rows |-> {}]

\* the value returned to the caller: status, text and the rows listed
ListRespond(p, req, code, text, list) ==
    /\ procs' = [procs EXCEPT ![p] = IdleProc]
    /\ resp' = [inv |-> 0, res |-> code, msg |-> text, act |-> req.op, actor |-> req.actor, list |-> list]

\* .from('BookMember').select('bookId, permission').eq('userId', userId)
UserBooks(userId) == {[bookId |-> m.bookId, permission |-> m.permission] : m \in {x \in members : x.userId = userId}}

\* bookPermissions[bookId] of the reduce over userBooks
BookPermission(rows, bookId) == (CHOOSE b \in rows : b.bookId = bookId).permission

\* .from('Recipe').in('bookId', bookIds)
RecipesIn(bookIds) == {x \in recipes : x.bookId \in bookIds}

\* the ownership flag set for every recipe
IsOwnerAlways(recipe, userId) == TRUE

\* isOwner: recipe.createdBy === userId
IsOwner(recipe, userId) == recipe.createdBy = userId

\* a recipe with permission and ownership info
Transformed(recipe, rows, userId) ==
    [id |-> recipe.id, bookId |-> recipe.bookId, createdBy |-> recipe.createdBy,
     permission |-> BookPermission(rows, recipe.bookId), isOwner |-> IsOwner(recipe, userId)]

\* getUserAccessibleRecipes: "Get all books user is a member of"
AccessibleBooks(p, u, fault) ==
    /\ procs[p].pc = "idle"
    /\ u \in Registered
    /\ LET req == ListReq("getUserAccessibleRecipes", u)
       IN IF fault \/ UserBooks(u) = {}
          THEN ListRespond(p, req, 200, "recipes", {})
          ELSE Goto(p, [req EXCEPT !.pc = "accrecipes", !.rows = UserBooks(u)])
    /\ UNCHANGED <<users, members, invitations, recipes, now, nextInvId>>

\* getUserAccessibleRecipes: "Get all recipes from user's books" and the transform
AccessibleRecipes(p, fault) ==
    /\ procs[p].pc = "accrecipes"
    /\ LET me == procs[p]
       IN IF fault
          THEN ListRespond(p, me, 200, "recipes", {})
          ELSE ListRespond(p, me, 200, "recipes",
                           {Transformed(x, me.rows, me.actor) : x \in RecipesIn({b.bookId : b \in me.rows})})
    /\ UNCHANGED <<users, members, invitations, recipes, now, nextInvId>>

(* --------------------------- GET /api/recipes ------------------------- *)

\* "Get all recipe books that the user is a member of"
ListBooks(p, u, fault) ==
    /\ procs[p].pc = "idle"
    /\ u \in Registered
    /\ LET req == ListReq("GET-recipes", u)
       IN IF fault THEN ListRespond(p, req, 500, "Failed to fetch user books", {})
          ELSE IF UserBooks(u) = {} THEN ListRespond(p, req, 200, "recipes", {})
          ELSE Goto(p, [req EXCEPT !.pc = "listrecipes", !.rows = UserBooks(u)])
    /\ UNCHANGED <<users, members, invitations, recipes, now, nextInvId>>

\* the recipes of the user's books, with no search, tag or creator filter given
ListRecipes(p, fault) ==
    /\ procs[p].pc = "listrecipes"
    /\ LET me == procs[p]
       IN IF fault
          THEN ListRespond(p, me, 500, "Failed to fetch recipes", {})
          ELSE ListRespond(p, me, 200, "recipes",
                           {[id |-> x.id, bookId |-> x.bookId, createdBy |-> x.createdBy] :
                               x \in RecipesIn({b.bookId : b \in me.rows})})
    /\ UNCHANGED <<users, members, invitations, recipes, now, nextInvId>>

(* -------------------------- POST /api/recipes ------------------------- *)

\* the books of the user's BookMember rows of any permission
PostUserBooksAnyPermission(user) == {m.bookId : m \in {x \in members : x.userId = user}}

\* userBooks: BookMember rows with userId = user and permission = 'WRITE'
PostUserBooks(user) == {m.bookId : m \in {x \in members : x.userId = user /\ x.permission = "WRITE"}}

\* the recipe creations in flight
Posting == {q \in Procs : procs[q].op = "POST-recipes"}

\* a signed-in user and a valid body; "Get user's default recipe book"
PostBooks(p, u, fault) ==
    /\ procs[p].pc = "idle"
    /\ u \in Registered
    /\ Cardinality(recipes) + Cardinality(Posting) < MaxRecipes
    /\ LET req == ListReq("POST-recipes", u)
       IN IF fault \/ PostUserBooks(u) = {}
          THEN ListRespond(p, req, 403, "You don't have permission to create recipes in any book", {})
          ELSE \E b \in PostUserBooks(u) : Goto(p, [req EXCEPT !.pc = "postinsert", !.book = b])
    /\ UNCHANGED <<users, members, invitations, recipes, now, nextInvId>>

\* the inserted Recipe row
NewRecipe(id, book, user) ==
    [id |-> id, bookId |-> book, userId |-> user, createdBy |-> user, title |-> "t1"]

\* "Create recipe"; the tags and the final fetch change no recipe
PostInsert(p, fault, fetchFault) ==
    /\ procs[p].pc = "postinsert"
    /\ LET me == procs[p]
           row == NewRecipe(RecipeName(Cardinality(recipes) + 1), me.book, me.actor)
       IN IF fault
          THEN /\ ListRespond(p, me, 500, "Failed to create recipe", {})
               /\ UNCHANGED recipes
          ELSE /\ recipes' = recipes \cup {row}
               /\ ListRespond(p, me, IF fetchFault THEN 200 ELSE 201, "recipe", {row.id})
    /\ UNCHANGED <<users, members, invitations, now, nextInvId>>

(* ------------------------- GET /api/invitations ----------------------- *)

\* the received filter passing every row
ReceivedByAnyone(invitation, user) == TRUE

\* .eq('invitedUserEmail', session.user.email)
ReceivedBy(invitation, user) == invitation.invitedUserEmail = EmailOf(user)

\* .eq('invitedById', session.user.id)
SentBy(invitation, user) == invitation.invitedById = user

\* "Get invitations received by the user"
InvReceived(p, u, fault) ==
    /\ procs[p].pc = "idle"
    /\ u \in Registered
    /\ LET req == ListReq("GET-invitations", u)
       IN IF fault THEN ListRespond(p, req, 500, "Failed to fetch received invitations", {})
          ELSE Goto(p, [req EXCEPT !.pc = "invsent", !.rows = {i \in invitations : ReceivedBy(i, u)}])
    /\ UNCHANGED <<users, members, invitations, recipes, now, nextInvId>>

\* "Get invitations sent by the user", then the answer with both lists
InvSent(p, fault) ==
    /\ procs[p].pc = "invsent"
    /\ LET me == procs[p]
       IN IF fault THEN ListRespond(p, me, 500, "Failed to fetch sent invitations", {})
          ELSE ListRespond(p, me, 200, "invitations",
                           [received |-> me.rows, sent |-> {i \in invitations : SentBy(i, me.actor)}])
    /\ UNCHANGED <<users, members, invitations, recipes, now, nextInvId>>

(* ------------------ listings and creation: specification -------------- *)

\* the accounts all exist; u1 is the WRITE member of b1 and u2 a READ member of
\* b2; u1 has invited e3 to b1 with either permission and e2 to b1 with WRITE;
\* one recipe per book, made by its member
ListInit ==
    /\ users = {[id |-> u, email |-> EmailOf(u), createdAt |-> 0] : u \in UserIds}
    /\ members = {[id |-> 1, bookId |-> "b1", userId |-> "u1", permission |-> "WRITE"],
                  [id |-> 2, bookId |-> "b2", userId |-> "u2", permission |-> "READ"]}
    /\ \E q \in Perms :
          invitations = {NewInvitation(1, "b1", "u1", "e3", q, 0), NewInvitation(2, "b1", "u1", "e2", "WRITE", 0)}
    /\ recipes = {NewRecipe("r1", "b1", "u1"), NewRecipe("r2", "b2", "u2")}
    /\ now = 0
    /\ nextInvId = 3
    /\ procs = [p \in Procs |-> IdleProc]
    /\ resp = NoResp

ListNext ==
    \/ \E p \in Procs, u \in UserIds, id \in 1..MaxInv, fault \in BOOLEAN :
          Quiet /\ Free(p) /\ PatchRead(p, u, id, "accept", fault)
    \/ \E p \in Procs, fault \in BOOLEAN : Quiet /\ PatchUpdate(p, fault)
    \/ \E p \in Procs, fault \in BOOLEAN : Quiet /\ PatchMember(p, fault)
    \/ \E p \in Procs, u \in UserIds, fault \in BOOLEAN : Quiet /\ Free(p) /\ AccessibleBooks(p, u, fault)
    \/ \E p \in Procs, fault \in BOOLEAN : Quiet /\ AccessibleRecipes(p, fault)
    \/ \E p \in Procs, u \in UserIds, fault \in BOOLEAN : Quiet /\ Free(p) /\ ListBooks(p, u, fault)
    \/ \E p \in Procs, fault \in BOOLEAN : Quiet /\ ListRecipes(p, fault)
    \/ \E p \in Procs, u \in UserIds, fault \in BOOLEAN : Quiet /\ Free(p) /\ PostBooks(p, u, fault)
    \/ \E p \in Procs, fault \in BOOLEAN, fetchFault \in BOOLEAN : Quiet /\ PostInsert(p, fault, fetchFault)
    \/ \E p \in Procs, u \in UserIds, fault \in BOOLEAN : Quiet /\ Free(p) /\ InvReceived(p, u, fault)
    \/ \E p \in Procs, fault \in BOOLEAN : Quiet /\ InvSent(p, fault)
    \/ Deliver

ListSpec == ListInit /\ [][ListNext]_vars

(* ------------------------------- claims ------------------------------- *)

Expired == [res |-> 400, msg |-> "Invitation has expired"]
Forbidden == [res |-> 403, msg |-> "Unauthorized"]

\* C1: when the membership insert of an accept fails, the invitation the accept
\* named is not stored ACCEPTED unless its invitee has a membership of its book.
C1_AcceptedOnlyWithMembership ==
    resp.msg = "Failed to create book access" =>
        \A i \in invitations :
            (i.id = resp.inv /\ i.status = "ACCEPTED") => MemberRows(i.bookId, i.invitedUserId) # {}

\* accept requests on invitation id that have stored ACCEPTED and are at their membership insert
AcceptsAtInsert(id) ==
    {p \in Procs : procs[p].op = "PATCH" /\ procs[p].act = "accept" /\ procs[p].pc = "member"
                   /\ procs[p].inv = id}

\* C2: of the accept calls on one invitation at most one is not denied as "no
\* longer pending": never are two of them at their membership insert, nor one
\* there when another has just been answered with success.
C2_OneAcceptWins ==
    \A id \in 1..MaxInv :
        Cardinality(AcceptsAtInsert(id))
          + (IF resp = [inv |-> id, res |-> 200, msg |-> "ACCEPTED", act |-> "accept"] THEN 1 ELSE 0) <= 1

\* C3: the membership store holds at most one row per (bookId, userId).
C3_OneMembershipPerPair ==
    \A m1, m2 \in members : (m1.bookId = m2.bookId /\ m1.userId = m2.userId) => m1 = m2

\* a user has accepted a second invitation to a book of which they are a member
C3_Witness ==
    \E i, j \in invitations :
        /\ i.id # j.id /\ i.bookId = j.bookId
        /\ i.status = "ACCEPTED" /\ j.status = "ACCEPTED"
        /\ i.invitedUserId = j.invitedUserId
        /\ MemberRows(i.bookId, i.invitedUserId) # {}

\* C4: at most one PENDING invitation is stored per (bookId, invitedUserEmail).
C4_OnePendingPerPair ==
    \A i, j \in invitations :
        (i.status = "PENDING" /\ j.status = "PENDING" /\ i.bookId = j.bookId
           /\ i.invitedUserEmail = j.invitedUserEmail) => i = j

\* a create passed its duplicate check and another create has inserted since
C4_Witness ==
    \E p \in Procs : procs[p].pc = "insert" /\ PendingFor(procs[p].book, procs[p].email) # {}

\* C5: a create whose duplicate check or insert runs while a PENDING invitation
\* of its (bookId, email) is stored is rejected and inserts nothing; with no
\* PENDING one stored (also after the earlier one was DECLINED) the check lets
\* it through and the insert stores a new PENDING invitation of that pair.
C5_CreateRespectsPending ==
    [][\A p \in Procs :
        LET me == procs[p]
            pend == PendingFor(me.book, me.email)
        IN /\ (CreateCheck(p, FALSE) /\ pend # {}) =>
                 /\ resp'.res = 400 /\ resp'.msg = "Invitation already sent to this user"
                 /\ invitations' = invitations
           /\ (me.pc = "insert" /\ procs'[p].pc = "idle" /\ pend # {}) =>
                 /\ resp'.res = 500
                 /\ invitations' = invitations
           /\ (CreateCheck(p, FALSE) /\ pend = {}) => procs'[p].pc = "insert"
           /\ (CreateInsert(p, FALSE) /\ pend = {}) =>
                 /\ resp'.res = 201
                 /\ \E i \in invitations' \ invitations :
                       /\ invitations' = invitations \cup {i}
                       /\ i.id = resp'.inv /\ i.status = "PENDING"
                       /\ i.bookId = me.book /\ i.invitedUserEmail = me.email
      ]_vars

\* an invitation was DECLINED and a later create of the same pair has succeeded
C5_Witness ==
    \E i, j \in invitations :
        /\ i.status = "DECLINED" /\ j.status = "PENDING" /\ i.id < j.id
        /\ i.bookId = j.bookId /\ i.invitedUserEmail = j.invitedUserEmail
        /\ resp = [inv |-> j.id, res |-> 201, msg |-> "PENDING", act |-> "none"]

\* C6: once an invitation is stored ACCEPTED, DECLINED or REVOKED, no step
\* changes its status again.
C6_StatusChangesOnce ==
    [][\A i \in invitations : \A j \in invitations' :
          (i.id = j.id /\ i.status # "PENDING") => j.status = i.status]_vars

\* C7: when an accept is answered with success, the invitation (while stored)
\* is ACCEPTED and linked to the invitee's account, that account holds a
\* membership of the book with the invitation's permission, may READ the
\* book's recipes, and may WRITE them exactly when the permission is WRITE.
C7_AcceptGrantsAccess ==
    (resp.res = 200 /\ resp.msg = "ACCEPTED") =>
        \A i \in invitations : i.id = resp.inv =>
            /\ i.status = "ACCEPTED"
            /\ i.invitedUserId \in Registered /\ EmailOf(i.invitedUserId) = i.invitedUserEmail
            /\ \E m \in members : m.bookId = i.bookId /\ m.userId = i.invitedUserId
                                  /\ m.permission = i.permission
            /\ \A r \in recipes : r.bookId = i.bookId =>
                  /\ requireRecipeAccess(r.id, i.invitedUserId, "READ", FALSE, FALSE).success
                  /\ requireRecipeAccess(r.id, i.invitedUserId, "WRITE", FALSE, FALSE).success
                       <=> i.permission = "WRITE"

\* C8: an accept or decline by the invitee, read from the store, of a PENDING
\* invitation with expiresAt < now is answered 400 "Invitation has expired"
\* (neither the pending nor the identity denial), and writes nothing.
C8_ExpiredRejected ==
    [][\A p \in Procs, u \in UserIds, id \in 1..MaxInv, a \in {"accept", "decline"} :
        LET i == InvById(id)
        IN (/\ PatchRead(p, u, id, a, FALSE)
            /\ i # NoInv /\ i.status = "PENDING"
            /\ i.invitedUserEmail = EmailOf(u) /\ i.expiresAt < now) =>
               /\ resp' = [inv |-> id, res |-> Expired.res, msg |-> Expired.msg, act |-> a]
               /\ Expired.msg \notin {"Invitation is no longer pending", Forbidden.msg}
               /\ members' = members /\ invitations' = invitations
               /\ procs'[p].pc = "idle"
      ]_vars

\* an expired PENDING invitation has just been refused
C8_Witness ==
    /\ resp.res = Expired.res /\ resp.msg = Expired.msg
    /\ \E i \in invitations : i.id = resp.inv /\ i.status = "PENDING" /\ i.expiresAt < now

\* C9, strict reading: an accept goes on only when expiresAt > now; one read at
\* now >= expiresAt (the instant now = expiresAt included) is rejected and
\* changes nothing.
C9_AcceptNeedsStrictlyLater ==
    [][\A p \in Procs, u \in UserIds, id \in 1..MaxInv :
        LET i == InvById(id)
        IN (PatchRead(p, u, id, "accept", FALSE) /\ i # NoInv /\ i.expiresAt <= now) =>
               /\ procs'[p].pc = "idle" /\ resp'.res >= 400
               /\ members' = members /\ invitations' = invitations
      ]_vars

\* C9, boundary: an accept is refused as expired exactly when expiresAt < now; an
\* accept by the invitee of a PENDING invitation read at now = expiresAt passes
\* the checks and goes on to its writes.
C9_AcceptExpiryBoundary ==
    [][\A p \in Procs, u \in UserIds, id \in 1..MaxInv :
        LET i == InvById(id)
        IN (PatchRead(p, u, id, "accept", FALSE) /\ i # NoInv) =>
              /\ procs'[p].pc = "update" => i.expiresAt >= now
              /\ (resp'.res = Expired.res /\ resp'.msg = Expired.msg) <=>
                    (i.invitedUserEmail = EmailOf(u) /\ i.status = "PENDING" /\ i.expiresAt < now)
              /\ (i.invitedUserEmail = EmailOf(u) /\ i.status = "PENDING" /\ i.expiresAt = now) =>
                    (procs'[p].pc = "update" /\ invitations' = invitations /\ members' = members)
      ]_vars

\* an accept read at the very instant of expiry is on its way to its writes
C9_Witness ==
    \E p \in Procs :
        /\ procs[p].op = "PATCH" /\ procs[p].act = "accept" /\ procs[p].pc = "update"
        /\ procs[p].snap.expiresAt = now

\* C10: an accept or decline, read from the store, is answered 403 with nothing
\* written exactly when the account's e-mail differs from invitedUserEmail;
\* with equal e-mails it passes the identity check whatever the account's id,
\* and goes on to its write if the invitation is PENDING and not expired.
C10_AuthorizedByEmail ==
    [][\A p \in Procs, u \in UserIds, id \in 1..MaxInv, a \in {"accept", "decline"} :
        LET i == InvById(id)
        IN (PatchRead(p, u, id, a, FALSE) /\ i # NoInv) =>
              /\ EmailOf(u) # i.invitedUserEmail =>
                    /\ resp' = [inv |-> id, res |-> Forbidden.res, msg |-> Forbidden.msg, act |-> a]
                    /\ procs'[p].pc = "idle"
                    /\ members' = members /\ invitations' = invitations
              /\ EmailOf(u) = i.invitedUserEmail =>
                    /\ resp'.res # Forbidden.res
                    /\ (i.status = "PENDING" /\ ~(i.expiresAt < now)) => procs'[p].pc = "update"
      ]_vars

\* an invitation accepted by an account created after the invitation was
C10_Witness ==
    \E i \in invitations, x \in users :
        /\ i.status = "ACCEPTED" /\ i.invitedUserId = x.id
        /\ x.email = i.invitedUserEmail /\ x.createdAt > i.createdAt

\* C11: a revoke, read from the store, by a user other than the one who sent
\* the invitation is answered 403 "Unauthorized" and writes nothing, so a
\* PENDING invitation stays PENDING.
C11_RevokeByOthersForbidden ==
    [][\A p \in Procs, u \in UserIds, id \in 1..MaxInv :
        LET i == InvById(id)
        IN (PatchRead(p, u, id, "revoke", FALSE) /\ i # NoInv /\ i.invitedById # u) =>
              /\ resp' = [inv |-> id, res |-> Forbidden.res, msg |-> Forbidden.msg, act |-> "revoke"]
              /\ procs'[p].pc = "idle"
              /\ invitations' = invitations /\ members' = members
      ]_vars

\* a revoke of a PENDING invitation has just been refused as forbidden
C11_Witness ==
    /\ resp.act = "revoke" /\ resp.res = Forbidden.res /\ resp.msg = Forbidden.msg
    /\ \E i \in invitations : i.id = resp.inv /\ i.status = "PENDING"

\* C12: a revoke by the inviter of an invitation stored PENDING passes the
\* checks whatever expiresAt is, and its update stores REVOKED and leaves the
\* memberships alone.
C12_RevokeNeedsOnlyPending ==
    [][\A p \in Procs :
        /\ \A u \in UserIds, id \in 1..MaxInv :
              LET i == InvById(id)
              IN (/\ PatchRead(p, u, id, "revoke", FALSE)
                  /\ i # NoInv /\ i.status = "PENDING" /\ i.invitedById = u) =>
                     procs'[p].pc = "update"
        /\ (PatchUpdate(p, FALSE) /\ procs[p].act = "revoke" /\ InvById(procs[p].inv) # NoInv) =>
              /\ \E j \in invitations' : j.id = procs[p].inv /\ j.status = "REVOKED"
              /\ members' = members
      ]_vars

\* C13: the update of a decline stores DECLINED, keeps the row's invitedUserId
\* and every other row, leaves the memberships alone and is answered 200.
C13_DeclineOnlySetsStatus ==
    [][\A p \in Procs :
        LET i == InvById(procs[p].inv)
        IN (PatchUpdate(p, FALSE) /\ procs[p].act = "decline" /\ i # NoInv) =>
              /\ invitations' = (invitations \ {i}) \cup {[i EXCEPT !.status = "DECLINED"]}
              /\ members' = members
              /\ resp' = [inv |-> i.id, res |-> 200, msg |-> "DECLINED", act |-> "decline"]
      ]_vars

\* a decline has just succeeded on an invitation that no account is linked to
C13_Witness ==
    /\ resp.act = "decline" /\ resp.res = 200
    /\ \E i \in invitations : i.id = resp.inv /\ i.status = "DECLINED" /\ i.invitedUserId = "none"

\* C14: a delete, read from the store, goes on to its write exactly when the
\* actor is the inviter (by id) or the invitee (by e-mail), whatever the status
\* or expiry, and is answered 403 with nothing written otherwise; the write
\* removes that row only and leaves the memberships alone.
C14_DeleteByEitherParty ==
    [][\A p \in Procs :
        /\ \A u \in UserIds, id \in 1..MaxInv :
              LET i == InvById(id)
              IN (DeleteRead(p, u, id, FALSE) /\ i # NoInv) =>
                    /\ procs'[p].pc = "delete" <=>
                          (i.invitedById = u \/ i.invitedUserEmail = EmailOf(u))
                    /\ procs'[p].pc # "delete" =>
                          (resp'.res = Forbidden.res /\ procs'[p].pc = "idle")
                    /\ invitations' = invitations /\ members' = members
        /\ DeleteWrite(p, FALSE) =>
              /\ invitations' = {i \in invitations : i.id # procs[p].inv}
              /\ members' = members
              /\ resp'.res = 200
      ]_vars

\* the only invitation ever created was accepted and has just been deleted,
\* and the membership its accept inserted is still stored
C14_Witness ==
    /\ resp.msg = "Invitation deleted successfully"
    /\ nextInvId = 2 /\ invitations = {}
    /\ \E m \in members : m.bookId = "b1" /\ m.userId = "u3"

\* C15: a call of requireBookAccess, and one of requireRecipeAccess on a stored
\* recipe, succeeds exactly when the user has a membership of the book and
\* either READ is required or the membership is WRITE.
C15_RequirementMatchesMembership ==
    [][\A u \in UserIds, perm \in Perms :
        /\ \A b \in Books :
              CallRequireBookAccess(u, b, perm, FALSE) =>
                 (resp'.res = 200 <=>
                    \E m \in members : /\ m.bookId = b /\ m.userId = u
                                       /\ (perm = "READ" \/ m.permission = "WRITE"))
        /\ \A x \in recipes :
              CallRequireRecipeAccess(u, x.id, perm, FALSE, FALSE) =>
                 (resp'.res = 200 <=>
                    \E m \in members : /\ m.bookId = x.bookId /\ m.userId = u
                                       /\ (perm = "READ" \/ m.permission = "WRITE"))
      ]_vars

\* a READ member has just been refused WRITE on a recipe of the book
C15_Witness ==
    /\ resp.act = "requireRecipeAccess" /\ resp.res = 403
    /\ resp.msg = "You don't have write access to this recipe"
    /\ \E x \in recipes, m \in members :
          /\ x.id = resp.recipe /\ m.bookId = x.bookId /\ m.userId = resp.actor
          /\ m.permission = "READ"

\* C16: a call of checkBookAccess for a (bookId, userId) with no membership of
\* exactly that pair returns hasAccess = false, whatever the user holds elsewhere.
C16_NoAccessAcrossBooks ==
    [][\A u \in UserIds, b \in Books :
        (/\ CallCheckBookAccess(u, b, FALSE)
         /\ ~\E m \in members : m.bookId = b /\ m.userId = u) =>
            (resp'.res = 403 /\ resp'.msg = "none")
      ]_vars

\* a WRITE member of one book has just been found to have no access to another
C16_Witness ==
    /\ resp.act = "checkBookAccess" /\ resp.res = 403
    /\ ~\E m \in members : m.bookId = resp.recipe /\ m.userId = resp.actor
    /\ \E m \in members : m.bookId # resp.recipe /\ m.userId = resp.actor /\ m.permission = "WRITE"

\* C17: when the store errors on the membership or the recipe lookup, the
\* evaluators do not return success, and PUT and DELETE (of either kind) end
\* with an error answer and leave the recipes as they were.
C17_FailClosed ==
    [][/\ \A u \in UserIds, b \in Books, perm \in Perms :
            /\ CallCheckBookAccess(u, b, TRUE) => resp'.res # 200
            /\ CallRequireBookAccess(u, b, perm, TRUE) => resp'.res # 200
       /\ \A u \in UserIds, r \in RecipeIds, perm \in Perms, rf \in BOOLEAN, mf \in BOOLEAN :
            (CallRequireRecipeAccess(u, r, perm, rf, mf) /\ (rf \/ mf)) => resp'.res # 200
       /\ \A p \in Procs :
            (\/ \E u \in UserIds, r \in RecipeIds :
                   \/ PutRead(p, u, r, TRUE) \/ DelRead(p, u, r, TRUE)
                   \/ OwnerDelRead(p, u, r, TRUE)
                   \/ \E t \in Titles : OwnerPutRead(p, u, r, t, TRUE)
             \/ \E t \in Titles : PutMember(p, t, TRUE)
             \/ DelMember(p, TRUE)) =>
                /\ procs'[p].pc = "idle" /\ resp'.res >= 400
                /\ recipes' = recipes
      ]_vars

\* a PUT by a WRITE member of the recipe's book has just been refused
C17_Witness ==
    /\ resp.act = "PUT" /\ resp.res = 403
    /\ \E x \in recipes, m \in members :
          /\ x.id = resp.recipe /\ m.bookId = x.bookId /\ m.userId = resp.actor
          /\ m.permission = "WRITE"

\* C18: a caller with no membership of a stored recipe's book gets, from
\* requireRecipeAccess and from GET, PUT and DELETE, the answer given for a
\* recipe id that is not stored: 404 "Recipe not found".
C18_NoMembershipLooksLikeNotFound ==
    [][/\ \A u \in UserIds, perm \in Perms, x \in recipes, r \in RecipeIds :
            (/\ CallRequireRecipeAccess(u, x.id, perm, FALSE, FALSE)
             /\ RecipeById(r) = {}
             /\ ~\E m \in members : m.bookId = x.bookId /\ m.userId = u) =>
                /\ resp'.res = requireRecipeAccess(r, u, perm, FALSE, FALSE).status
                /\ resp'.msg = requireRecipeAccess(r, u, perm, FALSE, FALSE).error
       /\ \A p \in Procs :
            (/\ procs[p].pc \in {"getmember", "putmember", "delmember"}
             /\ procs'[p].pc = "idle"
             /\ ~\E m \in members : m.bookId = procs[p].book /\ m.userId = procs[p].actor) =>
                (resp'.res = 404 /\ resp'.msg = "Recipe not found")
      ]_vars

\* C19: a step that updates or deletes a recipe is taken by a request whose
\* actor has a WRITE membership of that recipe's book.
C19_MutationNeedsWriteMembership ==
    [][\A p \in Procs, x \in recipes :
          (procs'[p] # procs[p] /\ x \notin recipes') =>
              \E m \in members : /\ m.bookId = x.bookId /\ m.userId = procs[p].actor
                                 /\ m.permission = "WRITE"
      ]_vars

\* C20: the membership write of an accept with permission READ, made when the
\* pair has a WRITE membership, leaves exactly one membership of the pair, and
\* its permission is READ.
C20_MembershipWriteOverwrites ==
    [][\A p \in Procs :
        LET b == procs[p].snap.bookId
            u == procs[p].actor
        IN (/\ PatchMember(p, FALSE)
            /\ procs[p].snap.permission = "READ"
            /\ \E m \in members : m.bookId = b /\ m.userId = u /\ m.permission = "WRITE") =>
               \E m \in members' :
                  /\ {x \in members' : x.bookId = b /\ x.userId = u} = {m}
                  /\ m.permission = "READ"
      ]_vars

\* C21: a create whose inviter has no WRITE membership is answered 403 and
\* inserts nothing; a create in flight carries a book its inviter holds WRITE
\* on; and every inserted invitation is PENDING, sent by the inviter, of such a
\* book, and expires InviteTtl days after the insert.
C21_CreateNeedsWriteMembership ==
    [][/\ \A p \in Procs, u \in UserIds, e \in Emails, perm \in Perms :
            (/\ CreateBooks(p, u, e, perm, FALSE)
             /\ ~\E m \in members : m.userId = u /\ m.permission = "WRITE") =>
                /\ resp'.res = 403 /\ procs'[p].pc = "idle"
                /\ invitations' = invitations /\ members' = members
       /\ \A p \in Procs :
            procs'[p].pc \in {"check", "insert"} =>
                \E m \in members' : /\ m.userId = procs'[p].actor /\ m.bookId = procs'[p].book
                                     /\ m.permission = "WRITE"
       /\ \A i \in invitations' :
            (\A j \in invitations : j.id # i.id) =>
                /\ \E p \in Procs : /\ procs[p].pc = "insert" /\ procs'[p].pc = "idle"
                                     /\ i.invitedById = procs[p].actor
                /\ invitations' = invitations \cup {i}
                /\ i.status = "PENDING"
                /\ i.expiresAt = now + InviteTtl
                /\ \E m \in members : /\ m.userId = i.invitedById /\ m.bookId = i.bookId
                                       /\ m.permission = "WRITE"
      ]_vars

\* a user who became a WRITE member by accepting an invitation has just sent one
C21_Witness ==
    /\ resp.res = 201
    /\ \E i \in invitations : i.id = resp.inv /\ i.invitedById = "u3" /\ i.status = "PENDING"

\* C22: a call of getUserAccessibleRecipes that meets no store error returns
\* every recipe of the books whose memberships it read, and only recipes of
\* books the user has a membership of, each with that membership's permission
\* and with isOwner true exactly when the user made the recipe; with no
\* membership gained during the call these are exactly the recipes of the
\* user's books; GET /api/recipes lists the same recipes.
C22_ListsRecipesOfOwnBooks ==
    [][\A p \in Procs :
        LET me == procs[p]
            mine == {x \in recipes : \E m \in members : m.userId = me.actor /\ m.bookId = x.bookId}
        IN /\ \A u \in UserIds :
                 (AccessibleBooks(p, u, FALSE) /\ procs'[p].pc = "idle") =>
                     /\ resp'.list = {}
                     /\ ~\E m \in members : m.userId = u
           /\ AccessibleRecipes(p, FALSE) =>
                 /\ \A y \in resp'.list :
                       \E x \in recipes, m \in members :
                          /\ x.id = y.id /\ m.userId = me.actor /\ m.bookId = x.bookId
                          /\ y.permission = m.permission
                          /\ y.isOwner <=> (x.createdBy = me.actor)
                 /\ \A x \in recipes :
                       (\E b \in me.rows : b.bookId = x.bookId) => \E y \in resp'.list : y.id = x.id
                 /\ me.rows = UserBooks(me.actor) => {y.id : y \in resp'.list} = {x.id : x \in mine}
           /\ ListRecipes(p, FALSE) =>
                 /\ {y.id : y \in resp'.list} \subseteq {x.id : x \in mine}
                 /\ me.rows = UserBooks(me.actor) => {y.id : y \in resp'.list} = {x.id : x \in mine}
      ]_vars

\* a member of two books has been listed a recipe of their own with READ and
\* one made by another user with WRITE
C22_Witness ==
    /\ resp.act = "getUserAccessibleRecipes"
    /\ \E y, z \in resp.list :
          /\ y.permission = "READ" /\ y.isOwner
          /\ z.permission = "WRITE" /\ ~z.isOwner

\* C23: no step takes access away: a (bookId, userId) for which checkBookAccess
\* returns hasAccess = true with some permission gets the same answer after
\* every step, the steps of a further accept by that user included.
C23_AcceptKeepsAccess ==
    [][\A b \in Books, u \in UserIds :
          checkBookAccess(b, u, FALSE).hasAccess =>
              (checkBookAccess(b, u, FALSE))' = checkBookAccess(b, u, FALSE)
      ]_vars

\* a member of the book has accepted a further invitation to it and the
\* membership insert has just been refused
C23_Witness ==
    /\ resp.act = "accept" /\ resp.msg = "Failed to create book access"
    /\ \E i \in invitations :
          /\ i.id = resp.inv /\ i.status = "ACCEPTED"
          /\ checkBookAccess(i.bookId, i.invitedUserId, FALSE).hasAccess

\* C24: when the membership insert of an accept of invitation i succeeds and i
\* is still stored, i is stored ACCEPTED.
C24_MembershipOnlyIfAccepted ==
    [][\A p \in Procs :
          (PatchMember(p, FALSE) /\ members' # members) =>
              \A i \in invitations' : i.id = procs[p].inv => i.status = "ACCEPTED"
      ]_vars

\* C25: every inserted membership is inserted by an accept at its membership
\* insert, for the account of the accepting user, whose e-mail is the
\* invitedUserEmail of the invitation read, with that invitation's bookId and
\* permission; the invitation read agrees with the stored one while it is stored.
C25_MembershipFromInvitation ==
    [][/\ \A m \in members' \ members :
            \E p \in Procs :
               /\ procs[p].op = "PATCH" /\ procs[p].act = "accept" /\ procs[p].pc = "member"
               /\ procs'[p].pc = "idle"
               /\ members' = members \cup {m}
               /\ m.userId = procs[p].actor
               /\ procs[p].snap.invitedUserEmail = EmailOf(m.userId)
               /\ m.bookId = procs[p].snap.bookId
               /\ m.permission = procs[p].snap.permission
       /\ \A p \in Procs :
            procs'[p].pc \in {"update", "member"} =>
               /\ procs'[p].snap.id = procs'[p].inv
               /\ \A i \in invitations' :
                     i.id = procs'[p].inv =>
                        /\ i.bookId = procs'[p].snap.bookId
                        /\ i.permission = procs'[p].snap.permission
                        /\ i.invitedUserEmail = procs'[p].snap.invitedUserEmail
      ]_vars

\* the accept of a READ invitation has just given its invitee a READ membership
C25_Witness ==
    /\ resp.act = "accept" /\ resp.res = 200
    /\ \E i \in invitations, m \in members :
          /\ i.id = resp.inv /\ i.permission = "READ"
          /\ m.bookId = i.bookId /\ m.userId = i.invitedUserId /\ m.permission = "READ"
          /\ EmailOf(m.userId) = i.invitedUserEmail

\* C26: an invitation stored with a status other than PENDING is not stored
\* PENDING after any step, and an invitation id that was given out is not
\* inserted again.
C26_NeverPendingAgain ==
    [][/\ \A i \in invitations : \A j \in invitations' :
             (i.id = j.id /\ i.status # "PENDING") => j.status # "PENDING"
       /\ \A j \in invitations' :
             (\A i \in invitations : i.id # j.id) => j.id >= nextInvId
      ]_vars

\* an invitation that was ACCEPTED has been written again, by a decline or a revoke
C26_Witness ==
    \E i \in invitations : i.status \in {"DECLINED", "REVOKED"} /\ i.invitedUserId # "none"

\* C27: a PATCH or DELETE on an invitation that is answered at its read (not
\* found, forbidden, no longer pending, expired) has written nothing, and its
\* answering step leaves the invitations and the memberships as they were.
C27_DenialChangesNothing ==
    [][\A p \in Procs, u \in UserIds, id \in 1..MaxInv, fault \in BOOLEAN :
          /\ \A a \in Actions :
                (resp'.res # 0 /\ resp'.inv = id /\ resp'.act = a /\ PatchRead(p, u, id, a, fault)) =>
                    /\ resp'.res \in {400, 403, 404}
                    /\ invitations' = invitations /\ members' = members
          /\ (resp'.res # 0 /\ resp'.inv = id /\ DeleteRead(p, u, id, fault)) =>
                /\ resp'.res \in {403, 404}
                /\ invitations' = invitations /\ members' = members
      ]_vars

\* the revoke of an expired invitation has just been refused and the invitation is still stored
C27_Witness ==
    /\ resp.act = "revoke" /\ resp.msg = "Invitation has expired"
    /\ \E i \in invitations : i.id = resp.inv

\* C28: an accept or decline by an account whose e-mail is not invitedUserEmail,
\* and a revoke by an account that did not send the invitation, is answered 403
\* "Unauthorized" whatever the invitation's status and expiry, and writes nothing.
C28_IdentityBeforeState ==
    [][\A p \in Procs, u \in UserIds, id \in 1..MaxInv, a \in Actions :
        LET i == InvById(id)
            party == IF a = "revoke" THEN i.invitedById = u ELSE i.invitedUserEmail = EmailOf(u)
        IN (PatchRead(p, u, id, a, FALSE) /\ i # NoInv /\ ~party) =>
              /\ resp' = [inv |-> id, res |-> 403, msg |-> "Unauthorized", act |-> a]
              /\ invitations' = invitations /\ members' = members
      ]_vars

\* a request on an invitation that is no longer PENDING has just been answered as forbidden
C28_Witness ==
    /\ resp.act \in Actions /\ resp.res = 403 /\ resp.msg = "Unauthorized"
    /\ \E i \in invitations : i.id = resp.inv /\ i.status # "PENDING"

\* C29: a POST /api/recipes by a user with no WRITE membership is answered 403
\* and inserts nothing; every inserted recipe is inserted by a POST, is made by
\* its user and lies in a book that user has a WRITE membership of.
C29_RecipeCreatedInWriteBook ==
    [][/\ \A p \in Procs, u \in UserIds :
            (/\ PostBooks(p, u, FALSE)
             /\ ~\E m \in members : m.userId = u /\ m.permission = "WRITE") =>
                /\ resp'.res = 403 /\ procs'[p].pc = "idle" /\ recipes' = recipes
       /\ \A x \in recipes' :
            (\A y \in recipes : y.id # x.id) =>
                /\ recipes' = recipes \cup {x}
                /\ \E p \in Procs : /\ procs[p].pc = "postinsert" /\ procs'[p].pc = "idle"
                                     /\ x.createdBy = procs[p].actor
                /\ \E m \in members : /\ m.userId = x.createdBy /\ m.bookId = x.bookId
                                       /\ m.permission = "WRITE"
      ]_vars

\* a user who held only a READ membership has accepted a WRITE invitation and created a recipe
C29_Witness ==
    /\ resp.act = "POST-recipes" /\ resp.res = 201
    /\ \E x \in recipes : /\ x.id \in resp.list /\ x.createdBy = "u2" /\ x.bookId = "b1"

\* C30: every invitation the listing returns to a user was sent to the user's
\* e-mail (received) or sent by the user (sent).
C30_ListsOwnInvitationsOnly ==
    [][\A p \in Procs :
          InvSent(p, FALSE) =>
              /\ \A i \in resp'.list.received : i.invitedUserEmail = EmailOf(procs[p].actor)
              /\ \A i \in resp'.list.sent : i.invitedById = procs[p].actor
      ]_vars

\* a user was listed an invitation while one between two other users is stored
C30_Witness ==
    /\ resp.act = "GET-invitations" /\ resp.res = 200
    /\ resp.list.received # {}
    /\ \E i \in invitations :
          /\ i.invitedById # resp.actor /\ i.invitedUserEmail # EmailOf(resp.actor)
          /\ i \notin resp.list.received \cup resp.list.sent

====
